---- MODULE Spec2Model ----
(***************************************************************************)
(* Model of the image-analysis pipeline of the Agro backend                *)
(* (backend/routes/images.js, backend/db.js) and of the client pages that  *)
(* poll it (frontend/src/pages/ImageDetail.jsx).                           *)
(*                                                                         *)
(* Conventions                                                             *)
(*   - an SQL column value is a sequence: <<>> is NULL, <<v>> is the value *)
(*     v;                                                                  *)
(*   - a text (model response, serialized JSON) is a sequence of tokens:   *)
(*     [k |-> "lb"] is the character '{', [k |-> "rb"] is '}',             *)
(*     [k |-> "junk"] is a run of characters without braces and            *)
(*     [k |-> "body", p |-> o] is the member list of the JSON object o;    *)
(*   - a JavaScript value is a tagged record (Undef, Null, Num, Str, Arr,  *)
(*     Item); numbers are integers, box areas are kept in millionths.      *)
(***************************************************************************)
EXTENDS Integers, Sequences, FiniteSets, TLC

\* ------------------------------------------------------------------ bounds
\* Number of files the model lets the clients upload, hence of image rows.
MaxImages == 2
\* upload.array('images', 5): the number of files one request may carry.
MaxBatch == 5

\* -------------------------------------------------------- JavaScript values
Undef == [t |-> "undefined"]
Null == [t |-> "null"]
Num(n) == [t |-> "number", n |-> n]
Str(s) == [t |-> "string", s |-> s]
Arr(a) == [t |-> "array", a |-> a]
Item(label, box) == [t |-> "object", label |-> label, box_2d |-> box]
\* A string whose content is the decimal numeral of n, as in "12".
NumStr(n) == [t |-> "numstring", n |-> n]

\* A numeral beyond the range of a double (1e999) is parsed by JSON.parse to
\* Infinity, and -1e999 to -Infinity: Num(Infinity) and Num(-Infinity). Every
\* other number of the model is far smaller in magnitude.
Infinity == 2000000000
IsFinite(n) == -Infinity < n /\ n < Infinity

Min(a, b) == IF a < b THEN a ELSE b
Max(a, b) == IF a > b THEN a ELSE b

\* String.prototype.toLowerCase on the letters the labels use; a string is a
\* sequence of one-character strings.
LowerChar(c) ==
  CASE c = "W" -> "w" [] c = "E" -> "e" [] c = "D" -> "d"
    [] c = "C" -> "c" [] c = "R" -> "r" [] c = "O" -> "o" [] c = "P" -> "p"
    [] OTHER -> c
toLowerCase(s) == [i \in 1..Len(s) |-> LowerChar(s[i])]

\* String.prototype.includes
includes(s, sub) ==
  \E i \in 0..(Len(s) - Len(sub)) : \A j \in 1..Len(sub) : s[i + j] = sub[j]

\* Number(v) || 0 for a box entry: numbers stay, numeric strings convert,
\* null, NaN and everything non-numeric give 0.
NumberOrZero(v) ==
  CASE v.t = "number" -> v.n
    [] v.t = "numstring" -> v.n
    [] OTHER -> 0

\* areaOf, in millionths of the image (w * h / (1000 * 1000) as a fraction).
areaOf(box) ==
  IF box.t # "array" \/ Len(box.a) # 4 THEN 0
  ELSE LET ymin == Max(0, Min(1000, NumberOrZero(box.a[1])))
           xmin == Max(0, Min(1000, NumberOrZero(box.a[2])))
           ymax == Max(0, Min(1000, NumberOrZero(box.a[3])))
           xmax == Max(0, Min(1000, NumberOrZero(box.a[4])))
           w == Max(0, xmax - xmin)
           h == Max(0, ymax - ymin)
       IN w * h

\* it.label and it.box_2d: a property read of a primitive is undefined.
LabelOf(it) == IF it.t = "object" THEN it.label ELSE Undef
BoxOf(it) == IF it.t = "object" THEN it.box_2d ELSE Undef

\* (it.label || '').toLowerCase() raises a TypeError when it is null (no
\* property read on null) and when the label is truthy but not a string.
LabelThrows(it) ==
  \/ it.t = "null"
  \/ LabelOf(it).t = "number" /\ LabelOf(it).n # 0
  \/ LabelOf(it).t \in {"array", "object"}

LabelText(it) == IF LabelOf(it).t = "string" THEN LabelOf(it).s ELSE <<>>

Weed == <<"w", "e", "e", "d">>
Crop == <<"c", "r", "o", "p">>

\* items.filter(label includes kw).reduce(sum + areaOf(box_2d), 0), millionths.
RECURSIVE AreaSum(_, _)
AreaSum(items, kw) ==
  IF items = <<>> THEN 0
  ELSE (IF includes(toLowerCase(LabelText(Head(items))), kw)
          THEN areaOf(BoxOf(Head(items))) ELSE 0)
       + AreaSum(Tail(items), kw)

\* Math.round(area * 100): the percentage without the clamp.
CoveragePercentUnclamped(area) == (area + 5000) \div 10000

\* Math.round(Math.max(0, Math.min(100, area * 100))), area in millionths.
CoveragePercent(area) == (Max(0, Min(1000000, area)) + 5000) \div 10000

\* x == null || Number.isNaN(x): null and undefined only; JSON.parse never
\* yields NaN, and a string or an array is not NaN for Number.isNaN.
IsNullish(v) == v.t \in {"undefined", "null"}
\* A test that takes every value for missing: the derived coverage always
\* replaces the one of the payload.
AlwaysMissing(v) == TRUE
MissingCoverage(v) == IsNullish(v)

\* ------------------------------------------------------------------- texts
LB == [k |-> "lb"]
RB == [k |-> "rb"]
Junk == [k |-> "junk"]
Body(o) == [k |-> "body", p |-> o]

\* A parsed object: the five keys the code reads, Undef when absent.
Payload(ta, wc, hc, items, recs) ==
  [totalArea |-> ta, weedCoverage |-> wc, healthyCropCoverage |-> hc,
   items |-> items, recommendations |-> recs]
EmptyObject == Payload(Undef, Undef, Undef, Undef, Undef)

BraceAt(text, kind) == {i \in 1..Len(text) : text[i].k = kind}
MinOf(S) == CHOOSE x \in S : \A y \in S : x <= y
MaxOf(S) == CHOOSE x \in S : \A y \in S : x >= y

\* analysisText.match(/\{[\s\S]*\}/): the first '{' through the last '}';
\* <<>> stands for no match (null).
JsonMatch(text) ==
  LET ls == BraceAt(text, "lb")
      rs == BraceAt(text, "rb")
  IN IF ls = {} \/ rs = {} \/ MaxOf(rs) < MinOf(ls) THEN <<>>
     ELSE SubSeq(text, MinOf(ls), MaxOf(rs))

\* JSON.parse of a span that starts with '{': it is an object's text exactly
\* when it is '{' members '}' or '{}'.
ParseOk(span) ==
  \/ Len(span) = 2 /\ span[1].k = "lb" /\ span[2].k = "rb"
  \/ Len(span) = 3 /\ span[1].k = "lb" /\ span[2].k = "body" /\ span[3].k = "rb"
JsonParse(span) == IF Len(span) = 3 THEN span[2].p ELSE EmptyObject

\* What JSON.stringify writes for a value: a number that is not finite is
\* written as null, at any depth; everything else is written as it is.
RECURSIVE Serialized(_)
Serialized(v) ==
  CASE v.t = "number" -> IF IsFinite(v.n) THEN v ELSE Null
    [] v.t = "array" -> Arr([k \in 1..Len(v.a) |-> Serialized(v.a[k])])
    [] v.t = "object" -> Item(Serialized(v.label), Serialized(v.box_2d))
    [] OTHER -> v

\* JSON.stringify of an object: keys holding undefined are dropped, which the
\* Undef fields of the payload already stand for.
JsonStringify(o) ==
  LET w == [k \in DOMAIN o |-> Serialized(o[k])]
  IN IF w = EmptyObject THEN <<LB, RB>> ELSE <<LB, Body(w), RB>>

Unable == <<"U">>
Fallback ==
  Payload(Undef, Num(0), Num(100), Arr(<<>>), Arr(<<Str(Unable)>>))

\* The statements between the model call and the UPDATE (lines 127-174):
\* [threw |-> TRUE, by |-> ...] when JSON.parse or the label filter raises,
\* otherwise the segmentationData to persist.
ItemsThrow(items) == \E i \in 1..Len(items) : LabelThrows(items[i])

Derive(seg) ==
  IF seg.items.t # "array" THEN seg
  ELSE LET items == seg.items.a
           weedArea == AreaSum(items, Weed)
           cropArea == AreaSum(items, Crop)
       IN [seg EXCEPT
             !.weedCoverage =
               IF MissingCoverage(@) THEN Num(CoveragePercent(weedArea)) ELSE @,
             !.healthyCropCoverage =
               IF MissingCoverage(@) THEN Num(CoveragePercent(cropArea)) ELSE @,
             !.totalArea = IF IsNullish(@) THEN Num(100) ELSE @]

ParseFails(span) == ~ParseOk(span)

Normalize(text) ==
  LET m == JsonMatch(text)
  IN IF m # <<>> /\ ParseFails(m) THEN [threw |-> TRUE, by |-> "JSON.parse"]
     ELSE LET parsed == IF m # <<>> THEN JsonParse(m) ELSE Fallback
          IN IF parsed.items.t = "array" /\ ItemsThrow(parsed.items.a)
               THEN [threw |-> TRUE, by |-> "label"]
               ELSE [threw |-> FALSE, seg |-> Derive(parsed)]

\* ------------------------------------------------------------------- state
Users == {"u1", "u2"}
Ids == 1..MaxImages

VARIABLES
  images,    \* the images table: id -> row, for the rows that exist
  nextId,    \* AUTOINCREMENT: one more than the largest id ever assigned
  files,     \* the paths present in the uploads directory
  nextPath,  \* names multer has handed out so far, plus one
  upload,    \* the POST /upload handler in flight (one request at a time)
  worker,    \* per dispatched image id, the analyzeImage call
  del,       \* the DELETE /:id handler in flight (one request at a time)
  detail,    \* the ImageDetail page: whose it is, its id and its image state
  dash       \* the Dashboard page: whose it is and its images state

vars == <<images, nextId, files, nextPath, upload, worker, del, detail, dash>>

\* What the model returns (response.text): prose without braces, braces
\* around something that is not JSON, and a JSON object inside prose.
WeedPatch == Item(Str(<<"W", "e", "e", "d">>), Arr(<<Num(100), Num(100), Num(300), Num(300)>>))
DerivePayload == Payload(Undef, Undef, Num(60), Arr(<<WeedPatch>>), Undef)
Responses ==
  { [hasText |-> TRUE, text |-> <<Junk>>],
    [hasText |-> TRUE, text |-> <<LB, Junk, RB>>],
    [hasText |-> TRUE, text |-> <<Junk, LB, Body(DerivePayload), RB, Junk>>] }

\* response.text || ''
AnalysisText(resp) == IF resp.hasText THEN resp.text ELSE <<>>

\* ------------------------------------------------------------ record store
SqlNull == <<>>

\* CREATE TABLE images: the columns an INSERT leaves out take their defaults.
DefaultRow ==
  [user_id |-> "", original_path |-> 0, analysis_result |-> SqlNull,
   segmentation_data |-> SqlNull, status |-> "pending"]

\* INSERT INTO images (user_id, filename, original_path, status) VALUES (...)
InsertRow(user, path, status) ==
  [DefaultRow EXCEPT !.user_id = user, !.original_path = path, !.status = status]

\* The status the upload handler inserts a row with.
InsertStatus == "processing"

\* The UPDATE without its WHERE clause: every row is written.
UpdateAllRows(tbl, id, set) ==
  [j \in DOMAIN tbl |->
     [c \in DOMAIN tbl[j] |-> IF c \in DOMAIN set THEN set[c] ELSE tbl[j][c]]]

\* INSERT ... ON CONFLICT (id) DO UPDATE in place of the UPDATE: a row is
\* written whether or not one has the id.
UpsertWhereId(tbl, id, set) ==
  [j \in DOMAIN tbl \cup {id} |->
     IF j = id
       THEN [c \in DOMAIN DefaultRow |->
               IF c \in DOMAIN set THEN set[c]
               ELSE IF j \in DOMAIN tbl THEN tbl[j][c] ELSE DefaultRow[c]]
       ELSE tbl[j]]

\* UPDATE images SET <set> WHERE id = ?: rows with another id are untouched,
\* and no row is touched when none has the id.
UpdateWhereId(tbl, id, set) ==
  [j \in DOMAIN tbl |->
     IF j = id
       THEN [c \in DOMAIN tbl[j] |-> IF c \in DOMAIN set THEN set[c] ELSE tbl[j][c]]
       ELSE tbl[j]]

\* DELETE FROM images WHERE id = ?
DeleteWhereId(tbl, id) == [j \in DOMAIN tbl \ {id} |-> tbl[j]]

\* The SET list with segmentation_data left out.
CompletedFieldsNoSeg(text, seg) ==
  [analysis_result |-> <<text>>, status |-> "completed"]
\* The SET list with status left out.
CompletedFieldsNoStatus(text, seg) ==
  [analysis_result |-> <<text>>, segmentation_data |-> <<JsonStringify(seg)>>]

\* The SET lists of the worker's two UPDATE statements.
CompletedFields(text, seg) ==
  [analysis_result |-> <<text>>, segmentation_data |-> <<JsonStringify(seg)>>,
   status |-> "completed"]
FailedFields == [status |-> "failed"]

\* The SELECT without AND user_id = ?: the row of any user is found.
SelectById(tbl, id, user) == IF id \in DOMAIN tbl THEN <<tbl[id]>> ELSE <<>>

\* SELECT * FROM images WHERE id = ? AND user_id = ? (db.get): <<>> or <<row>>
SelectByIdAndUser(tbl, id, user) ==
  IF id \in DOMAIN tbl /\ tbl[id].user_id = user THEN <<tbl[id]>> ELSE <<>>

\* SELECT * FROM images WHERE user_id = ?: the ids of the user's rows
SelectByUser(tbl, user) == {j \in DOMAIN tbl : tbl[j].user_id = user}

\* img.segmentation_data ? JSON.parse(img.segmentation_data) : null, and the
\* row as the two GET handlers answer it.
SegmentationDataOf(row) ==
  IF row.segmentation_data # SqlNull /\ row.segmentation_data[1] # <<>>
    THEN <<JsonParse(row.segmentation_data[1])>> ELSE <<>>
ImageJson(row) ==
  [status |-> row.status, analysis_result |-> row.analysis_result,
   segmentation_data |-> row.segmentation_data,
   segmentationData |-> SegmentationDataOf(row)]

\* GET /:id as `user`: <<>> for 404, else <<image>>
GetById(user, id) ==
  LET r == SelectByIdAndUser(images, id, user)
  IN IF r = <<>> THEN <<>> ELSE <<ImageJson(r[1])>>

\* GET / as `user`: id -> image, for the user's rows
ListImages(user) == [j \in SelectByUser(images, user) |-> ImageJson(images[j])]

\* --------------------------------------------------------------------- Init
IdleUpload == [pc |-> "idle", user |-> "", files |-> <<>>, images |-> <<>>]
IdleDelete == [pc |-> "idle", user |-> "", id |-> 0, path |-> 0]
ClosedDetail == [user |-> "", id |-> 0, image |-> <<>>]
ClosedDash == [user |-> "", images |-> [j \in {} |-> ""]]

Init ==
  /\ images = [j \in {} |-> DefaultRow]
  /\ nextId = 1
  /\ files = {}
  /\ nextPath = 1
  /\ upload = IdleUpload
  /\ worker = [j \in {} |-> 0]
  /\ del = IdleDelete
  /\ detail = ClosedDetail
  /\ dash = ClosedDash

\* ------------------------------------------------------------ POST /upload
\* The request arrives with n files, which multer has already written to the
\* uploads directory under fresh names, and the handler issues its first
\* INSERT. (A request without files is answered 400 and changes nothing.)
UploadStart(u, n) ==
  /\ upload.pc = "idle"
  /\ nextPath + n - 1 <= MaxImages
  /\ LET paths == [k \in 1..n |-> nextPath + k - 1]
     IN /\ files' = files \cup {paths[k] : k \in 1..n}
        /\ nextPath' = nextPath + n
        /\ upload' = [pc |-> "insert", user |-> u, files |-> paths, images |-> <<>>]
  /\ UNCHANGED <<images, nextId, worker, del, detail, dash>>

\* analyzeImage(...) runs to its first await and hands back a promise the
\* handler drops: the worker is left waiting for fs.readFile.
Dispatched(path) ==
  [pc |-> "readFile", path |-> path, text |-> <<>>, seg |-> EmptyObject,
   cause |-> "none"]

\* The handler as it would be with `await analyzeImage(...)`: the response
\* is held back until the batch's workers have returned.
SendsResponseAfterAnalysis(remaining, batch) ==
  /\ remaining = <<>>
  /\ \A k \in 1..Len(batch) :
       batch[k] \in DOMAIN worker /\ worker[batch[k]].pc = "returned"

\* The loop is over and res.json is called as soon as the last file is
\* inserted and its worker dispatched (whatever the batch's workers are doing).
SendsResponse(remaining, batch) == remaining = <<>>

\* One turn of the loop: the INSERT resolves, the image is pushed, its worker
\* is dispatched, and after the last file the 200 is sent, which ends the
\* handler.
UploadInsert ==
  /\ upload.pc = "insert"
  /\ upload.files # <<>>
  /\ LET u == upload.user
         path == Head(upload.files)
         id == nextId
         remaining == Tail(upload.files)
         batch == Append(upload.images, id)
     IN /\ images' = [j \in DOMAIN images \cup {id} |->
                        IF j = id THEN InsertRow(u, path, InsertStatus) ELSE images[j]]
        /\ nextId' = nextId + 1
        /\ worker' = [j \in DOMAIN worker \cup {id} |->
                        IF j = id THEN Dispatched(path) ELSE worker[j]]
        /\ upload' = IF SendsResponse(remaining, batch) THEN IdleUpload
                      ELSE [upload EXCEPT !.files = remaining, !.images = batch]
  /\ UNCHANGED <<files, nextPath, del, detail, dash>>

\* The loop inside a transaction that the catch rolls back: the rows the
\* request has inserted so far are removed again.
RolledBack(tbl, batch) ==
  [j \in DOMAIN tbl \ {batch[k] : k \in 1..Len(batch)} |-> tbl[j]]

\* What the handler's catch leaves of the table: each INSERT was committed
\* on its own and the catch only answers, so all of it.
AfterCatch(tbl, batch) == tbl

\* The INSERT rejects: the handler's catch answers 500 and the loop is left.
UploadInsertFail ==
  /\ upload.pc = "insert"
  /\ upload.files # <<>>
  /\ images' = AfterCatch(images, upload.images)
  /\ upload' = IdleUpload
  /\ UNCHANGED <<nextId, files, nextPath, worker, del, detail, dash>>

\* ------------------------------------------------------------ analyzeImage
At(i, pc) == i \in DOMAIN worker /\ worker[i].pc = pc

\* A catch block that starts the attempt over instead of giving up.
CaughtRetries(w, cause) == [w EXCEPT !.pc = "readFile"]

\* Entering the catch block with the error raised by `cause`: the try block's
\* locals are gone, the UPDATE to failed is issued and awaited.
Caught(w, cause) ==
  [w EXCEPT !.pc = "catch", !.cause = cause, !.text = <<>>, !.seg = EmptyObject]

\* A model call with a deadline: a call that hangs is rejected in the end.
CallSettlesOrTimesOut(i) == At(i, "generateContent") \/ At(i, "hung")

\* The await on ai.models.generateContent ends only when the call settles.
CallSettles(i) == At(i, "generateContent")

\* fs.readFile resolves: the worker goes on to the model call.
ReadFileOk(i) ==
  /\ At(i, "readFile")
  /\ worker[i].path \in files
  /\ worker' = [worker EXCEPT ![i].pc = "generateContent"]
  /\ UNCHANGED <<images, nextId, files, nextPath, upload, del, detail, dash>>

\* fs.readFile rejects (the file is gone, or any I/O error).
ReadFileErr(i) ==
  /\ At(i, "readFile")
  /\ worker' = [worker EXCEPT ![i] = Caught(@, "readFile")]
  /\ UNCHANGED <<images, nextId, files, nextPath, upload, del, detail, dash>>

\* What the worker does with the model's answer, up to the next await: the
\* UPDATE to completed is issued, or the error JSON.parse or the label filter
\* raised takes it to the catch.
AfterResponse(w, resp) ==
  LET text == AnalysisText(resp)
      r == Normalize(text)
  IN IF r.threw THEN Caught(w, r.by)
     ELSE [w EXCEPT !.pc = "update", !.text = text, !.seg = r.seg]

\* ai.models.generateContent resolves with a response.
GenerateContentReturn(i, resp) ==
  /\ CallSettles(i)
  /\ worker' = [worker EXCEPT ![i] = AfterResponse(@, resp)]
  /\ UNCHANGED <<images, nextId, files, nextPath, upload, del, detail, dash>>

\* ai.models.generateContent rejects (network failure, API error).
GenerateContentErr(i) ==
  /\ CallSettles(i)
  /\ worker' = [worker EXCEPT ![i] = Caught(@, "generateContent")]
  /\ UNCHANGED <<images, nextId, files, nextPath, upload, del, detail, dash>>

\* The call never settles: nothing bounds the await, so the worker stays
\* suspended in it.
HungPc == "hung"
GenerateContentHang(i) ==
  /\ At(i, "generateContent")
  /\ worker' = [worker EXCEPT ![i].pc = HungPc]
  /\ UNCHANGED <<images, nextId, files, nextPath, upload, del, detail, dash>>

\* The UPDATE to failed in a finally block: it runs after the try block too.
AfterUpdateFinally == "catch"

\* Where the worker is once the UPDATE to completed has resolved: the try
\* block ends and the function returns.
AfterUpdate == "returned"
\* The call is over (its promise resolved, or rejected): its locals are gone.
Settled(w, pc) ==
  [w EXCEPT !.pc = pc, !.text = <<>>, !.seg = EmptyObject,
            !.cause = IF pc = "catch" THEN @ ELSE "none"]

\* The UPDATE to completed resolves.
UpdateCompletedOk(i) ==
  /\ At(i, "update")
  /\ images' = UpdateWhereId(images, i, CompletedFields(worker[i].text, worker[i].seg))
  /\ worker' = [worker EXCEPT ![i] = Settled(@, AfterUpdate)]
  /\ UNCHANGED <<nextId, files, nextPath, upload, del, detail, dash>>

\* The UPDATE to completed rejects: nothing is written, the catch runs.
UpdateCompletedErr(i) ==
  /\ At(i, "update")
  /\ worker' = [worker EXCEPT ![i] = Caught(@, "update")]
  /\ UNCHANGED <<images, nextId, files, nextPath, upload, del, detail, dash>>

\* The UPDATE to failed resolves and the function returns.
UpdateFailedOk(i) ==
  /\ At(i, "catch")
  /\ images' = UpdateWhereId(images, i, FailedFields)
  /\ worker' = [worker EXCEPT ![i] = Settled(@, "returned")]
  /\ UNCHANGED <<nextId, files, nextPath, upload, del, detail, dash>>

\* The UPDATE to failed rejects inside the catch block: the promise of
\* analyzeImage rejects, and nobody handles it.
UpdateFailedErr(i) ==
  /\ At(i, "catch")
  /\ worker' = [worker EXCEPT ![i] = Settled(@, "rejected")]
  /\ UNCHANGED <<images, nextId, files, nextPath, upload, del, detail, dash>>

\* ------------------------------------------------------------- DELETE /:id
\* db.get: no row of this user with this id answers 404, which ends the
\* handler; otherwise it goes on to unlink the row's file.
DeleteStart(u, id) ==
  /\ del.pc = "idle"
  /\ LET r == SelectByIdAndUser(images, id, u)
     IN del' = IF r = <<>> THEN IdleDelete
               ELSE [pc |-> "unlink", user |-> u, id |-> id,
                     path |-> r[1].original_path]
  /\ UNCHANGED <<images, nextId, files, nextPath, upload, worker, detail, dash>>

\* fs.unlink(...) without its .catch: the rejection reaches the handler's
\* catch, which answers 500 before the DELETE is issued.
UnlinkUncaught(d) == [pc |-> "idle", user |-> "", id |-> 0, path |-> 0]

\* .catch(() => {}) on the unlink: its rejection is swallowed and the handler
\* goes on to the DELETE.
UnlinkCaught(d) == [d EXCEPT !.pc = "run"]

\* fs.unlink resolves: the file is removed.
DeleteUnlink ==
  /\ del.pc = "unlink"
  /\ del.path \in files
  /\ files' = files \ {del.path}
  /\ del' = [del EXCEPT !.pc = "run"]
  /\ UNCHANGED <<images, nextId, nextPath, upload, worker, detail, dash>>

\* fs.unlink rejects: the file is already missing (ENOENT), or it is there
\* and cannot be removed (EPERM, EBUSY); the uploads directory is as it was.
DeleteUnlinkErr ==
  /\ del.pc = "unlink"
  /\ del' = UnlinkCaught(del)
  /\ UNCHANGED <<images, nextId, files, nextPath, upload, worker, detail, dash>>

\* DELETE FROM images resolves and the handler answers 200.
DeleteRun ==
  /\ del.pc = "run"
  /\ images' = DeleteWhereId(images, del.id)
  /\ del' = IdleDelete
  /\ UNCHANGED <<nextId, files, nextPath, upload, worker, detail, dash>>

\* DELETE FROM images rejects and the handler answers 500.
DeleteRunErr ==
  /\ del.pc = "run"
  /\ del' = IdleDelete
  /\ UNCHANGED <<images, nextId, files, nextPath, upload, worker, detail, dash>>

\* ------------------------------------------------------- ImageDetail page
\* What the page keeps of a GET /:id answer.
Seen(img) == [status |-> img.status, segmentationData |-> img.segmentationData]

\* The user opens the page of one of the images the dashboard lists and
\* fetchImage runs: the image is set from the 200 answer.
OpenDetail(u, id) ==
  /\ detail = ClosedDetail
  /\ GetById(u, id) # <<>>
  /\ detail' = [user |-> u, id |-> id, image |-> <<Seen(GetById(u, id)[1])>>]
  /\ UNCHANGED <<images, nextId, files, nextPath, upload, worker, del, dash>>

\* The effect with the wrong status in its test: it polls only a pending
\* image.
PollingWhilePending ==
  /\ detail.image # <<>>
  /\ detail.image[1].status = "pending"

\* The polling effect: no interval while the image is null or its status is
\* completed or failed.
Polling ==
  /\ detail.image # <<>>
  /\ ~(detail.image[1].status = "completed" \/ detail.image[1].status = "failed")

\* One tick of the interval, pollImageStatus: the image is replaced on 200
\* and kept on an error.
PollDetail ==
  /\ Polling
  /\ LET got == GetById(detail.user, detail.id)
     IN detail' = [detail EXCEPT !.image =
                     IF got = <<>> THEN @ ELSE <<Seen(got[1])>>]
  /\ UNCHANGED <<images, nextId, files, nextPath, upload, worker, del, dash>>

\* The user leaves the page.
CloseDetail ==
  /\ detail # ClosedDetail
  /\ detail' = ClosedDetail
  /\ UNCHANGED <<images, nextId, files, nextPath, upload, worker, del, dash>>

\* --------------------------------------------------------- Dashboard page
\* What the page's polling effect reads of a GET / answer: each image's
\* status.
SeenList(list) == [j \in DOMAIN list |-> list[j].status]

\* The user opens the dashboard and fetchImages runs: images is set from the
\* 200 answer.
OpenDash(u) ==
  /\ dash = ClosedDash
  /\ dash' = [user |-> u, images |-> SeenList(ListImages(u))]
  /\ UNCHANGED <<images, nextId, files, nextPath, upload, worker, del, detail>>

\* The effect without its early return: the interval is always set.
DashPollingAlways == dash.user # ""

\* The polling effect: the interval is set while some image of the list has
\* a status other than completed and failed.
DashPolling ==
  \E j \in DOMAIN dash.images :
    dash.images[j] # "completed" /\ dash.images[j] # "failed"

\* One tick of the interval, fetchImages: images is replaced by the answer.
PollDash ==
  /\ DashPolling
  /\ dash' = [dash EXCEPT !.images = SeenList(ListImages(dash.user))]
  /\ UNCHANGED <<images, nextId, files, nextPath, upload, worker, del, detail>>

\* The user leaves the dashboard.
CloseDash ==
  /\ dash # ClosedDash
  /\ dash' = ClosedDash
  /\ UNCHANGED <<images, nextId, files, nextPath, upload, worker, del, detail>>

\* --------------------------------------------------------------------- Next
Server ==
  \/ \E u \in Users, n \in 1..MaxBatch : UploadStart(u, n)
  \/ UploadInsert
  \/ UploadInsertFail
  \/ \E i \in Ids : ReadFileOk(i)
  \/ \E i \in Ids : ReadFileErr(i)
  \/ \E i \in Ids, resp \in Responses : GenerateContentReturn(i, resp)
  \/ \E i \in Ids : GenerateContentErr(i)
  \/ \E i \in Ids : GenerateContentHang(i)
  \/ \E i \in Ids : UpdateCompletedOk(i)
  \/ \E i \in Ids : UpdateCompletedErr(i)
  \/ \E i \in Ids : UpdateFailedOk(i)
  \/ \E i \in Ids : UpdateFailedErr(i)
  \/ \E u \in Users, id \in Ids : DeleteStart(u, id)
  \/ DeleteUnlink
  \/ DeleteUnlinkErr
  \/ DeleteRun
  \/ DeleteRunErr

Next == Server

Spec == Init /\ [][Next]_vars

\* The server together with a client that keeps an ImageDetail page.
Client ==
  \/ \E u \in Users, id \in Ids : OpenDetail(u, id)
  \/ PollDetail
  \/ CloseDetail

\* The server with file reads and model calls that settle and store writes
\* that succeed, and the client, each worker and the page's interval being
\* scheduled again and again by the event loop.
WorkerStep(i) ==
  \/ ReadFileOk(i)
  \/ ReadFileErr(i)
  \/ \E resp \in Responses : GenerateContentReturn(i, resp)
  \/ GenerateContentErr(i)
  \/ UpdateCompletedOk(i)
  \/ UpdateFailedOk(i)

LiveNext ==
  \/ \E u \in Users, n \in 1..MaxBatch : UploadStart(u, n)
  \/ UploadInsert
  \/ \E i \in Ids : WorkerStep(i)
  \/ \E u \in Users, id \in Ids : DeleteStart(u, id)
  \/ DeleteUnlink
  \/ DeleteUnlinkErr
  \/ DeleteRun
  \/ Client

LiveSpec ==
  /\ Init
  /\ [][LiveNext]_vars
  /\ \A i \in Ids : WF_vars(WorkerStep(i))
  /\ WF_vars(PollDetail)

\* Uploads whose INSERTs may fail, with workers whose reads and calls settle
\* and whose writes succeed, each scheduled again and again.
BatchNext ==
  \/ \E u \in Users, n \in 1..MaxBatch : UploadStart(u, n)
  \/ UploadInsert
  \/ UploadInsertFail
  \/ \E i \in Ids : WorkerStep(i)

BatchSpec ==
  /\ Init
  /\ [][BatchNext]_vars
  /\ \A i \in Ids : WF_vars(WorkerStep(i))

\* Uploads and workers with the client's two pages: the ImageDetail page and
\* the Dashboard, each opened, polling on its interval and closed.
Dashboard ==
  \/ \E u \in Users : OpenDash(u)
  \/ PollDash
  \/ CloseDash

PageNext ==
  \/ \E u \in Users, n \in 1..MaxBatch : UploadStart(u, n)
  \/ UploadInsert
  \/ \E i \in Ids : WorkerStep(i)
  \/ Client
  \/ Dashboard

PageSpec == Init /\ [][PageNext]_vars

\* ------------------------------------------- the worker on any model answer
\* One image has been uploaded and its worker is waiting for the model; the
\* model answers with any object of the shapes below, which the worker
\* normalizes and stores.
MaxItems == 2

Box4(a, b, c, d) == Arr(<<Num(a), Num(b), Num(c), Num(d)>>)
X == Str(<<"x">>)
NormLabels ==
  { Str(<<"W", "e", "e", "d">>), Str(<<"c", "r", "o", "p">>),
    Str(<<"C", "r", "o", "p", "_", "w", "E", "E", "D">>) }
NormBoxes ==
  { Box4(100, 100, 300, 300), Box4(0, 0, 500, 1000), Box4(0, 0, 1000, 1000),
    Box4(-50, 0, 2000, 500), Arr(<<Num(0), Num(0), Num(1000)>>),
    Arr(<<X, X, Num(1000), Num(1000)>>),
    Arr(<<Num(0), Num(0), Num(Infinity), NumStr(1000)>>) }
NormItems ==
  {Item(l, b) : l \in NormLabels, b \in NormBoxes}
    \cup { Null, Item(Num(7), Box4(100, 100, 300, 300)),
           Item(Str(<<"s", "o", "i", "l">>), Box4(0, 0, 500, 1000)),
           Item(Undef, Box4(300, 300, 100, 100)),
           Item(Str(<<"w", "e", "e", "d">>), Undef) }
ItemSeqs == UNION {[1..n -> NormItems] : n \in 0..MaxItems}

CoverageValues ==
  {Undef, Null, Num(60), Num(250), Num(-5), Num(Infinity), Str(<<"3", "0">>)}
TotalValues == {Undef, Null, Num(80), X}
Crop50 == Item(Str(<<"c", "r", "o", "p">>), Box4(0, 0, 500, 1000))
Weed10 == Item(Str(<<"w", "e", "e", "d">>), Box4(0, 0, 100, 1000))
ItemsShapes ==
  {Undef, Null, X, Arr(<<>>), Arr(<<WeedPatch>>), Arr(<<Crop50, Weed10>>)}
RecsShapes == {Undef, X, Arr(<<X>>)}

NormPayloads ==
  {Payload(ta, wc, hc, items, recs) :
     ta \in TotalValues, wc \in CoverageValues, hc \in CoverageValues,
     items \in ItemsShapes, recs \in RecsShapes}
    \cup {Payload(Undef, wc, Undef, Arr(items), Undef) :
            wc \in {Undef, Num(60)}, items \in ItemSeqs}

\* The text of a JSON object as the model writes it.
ObjectText(o) == IF o = EmptyObject THEN <<LB, RB>> ELSE <<LB, Body(o), RB>>

NormResponses ==
  {[hasText |-> TRUE, text |-> ObjectText(o)] : o \in NormPayloads}
    \cup Responses \cup {[hasText |-> FALSE, text |-> <<>>]}

NormInit ==
  /\ images = [j \in {1} |-> InsertRow("u1", 1, InsertStatus)]
  /\ nextId = 2
  /\ files = {1}
  /\ nextPath = 2
  /\ upload = IdleUpload
  /\ worker = [j \in {1} |-> [Dispatched(1) EXCEPT !.pc = "generateContent"]]
  /\ del = IdleDelete
  /\ detail = ClosedDetail
  /\ dash = ClosedDash

NormNext ==
  \/ /\ CallSettles(1)
     /\ \E resp \in NormResponses : GenerateContentReturn(1, resp)
  \/ UpdateCompletedOk(1)
  \/ UpdateFailedOk(1)

NormSpec == NormInit /\ [][NormNext]_vars

\* ------------------------------------------------------------------ claims
Terminal == {"completed", "failed"}
Exists(i) == i \in DOMAIN images
Deleted(i) == i < nextId /\ ~Exists(i)
Kept == DOMAIN images \cap DOMAIN images'

\* C1: in every reachable state, every existing row has its
\* segmentation_data set if and only if its status is completed.
C1_AnalysisIffCompleted ==
  \A i \in DOMAIN images :
    (images[i].segmentation_data # SqlNull) <=> (images[i].status = "completed")

\* A completed row with its analysis beside a failed row without one.
C1_Witness ==
  \E i, j \in DOMAIN images :
    /\ images[i].status = "completed" /\ images[i].segmentation_data # SqlNull
    /\ images[j].status = "failed" /\ images[j].segmentation_data = SqlNull

\* C2: every step takes a row's status along pending -> processing ->
\* {completed | failed}; a terminal row is never changed again while it
\* exists; a new row gets a fresh id, so a deleted row never comes back to
\* reach a terminal status a second time.
StatusStep(a, b) ==
  \/ a = b
  \/ a = "pending" /\ b = "processing"
  \/ a = "processing" /\ b \in Terminal
C2_Lifecycle ==
  [][ /\ \A i \in Kept :
           /\ StatusStep(images[i].status, images'[i].status)
           /\ images[i].status \in Terminal => images'[i] = images[i]
      /\ \A i \in DOMAIN images' \ DOMAIN images :
           /\ i = nextId /\ nextId' = nextId + 1
           /\ images'[i].status \in {"pending", "processing"} ]_vars

\* A failed row whose worker has returned, after another row was deleted and
\* its worker returned as well.
C2_Witness ==
  \E i \in DOMAIN images, j \in DOMAIN worker :
    /\ images[i].status = "failed" /\ worker[i].pc = "returned"
    /\ Deleted(j) /\ worker[j].pc = "returned"

\* C3 (as claimed): a worker that got malformed text leaves its row completed
\* with the fallback analysis: a row completed from a text without a
\* '{'...'}' span holds the fallback, and a worker whose JSON.parse raised on
\* the span returns with its row completed, holding the fallback.
FallbackStored == <<JsonStringify(Derive(Fallback))>>
C3_MalformedAlwaysCompleted ==
  /\ [](\A i \in DOMAIN images :
          images[i].status = "completed" /\ JsonMatch(images[i].analysis_result[1]) = <<>>
            => images[i].segmentation_data = FallbackStored)
  /\ [][\A i \in DOMAIN worker :
          /\ worker[i].pc = "catch" /\ worker[i].cause = "JSON.parse"
          /\ worker'[i].pc = "returned" /\ Exists(i)'
          => images'[i].status = "completed" /\ images'[i].segmentation_data = FallbackStored]_vars

\* C4 (as claimed): no run of the worker ends in a rejected promise with its
\* row still processing.
C4_NoEscape ==
  \A i \in DOMAIN worker :
    ~(worker[i].pc = "rejected" /\ Exists(i) /\ images[i].status = "processing")

\* C5 (as claimed): when the run of a worker whose file read, model call or
\* UPDATE to completed failed ends, its row, if not deleted, is failed with
\* analysis_result and segmentation_data NULL.
InfrastructureFailure == {"readFile", "generateContent", "update"}
C5_FailureMovesToFailed ==
  [][\A i \in DOMAIN worker :
       /\ worker[i].pc = "catch" /\ worker[i].cause \in InfrastructureFailure
       /\ worker'[i].pc \in {"returned", "rejected"}
       /\ Exists(i)'
       => /\ images'[i].status = "failed"
          /\ images'[i].analysis_result = SqlNull
          /\ images'[i].segmentation_data = SqlNull]_vars

\* C6: whatever GET /:id and GET / answer, at any point of any interleaving,
\* a completed image carries its raw output and its analysis and a processing
\* image carries neither; and every write to a row takes it from processing
\* to a terminal status in one step, completed together with both fields or
\* failed with both left NULL.
Consistent(img) ==
  /\ img.status = "completed" =>
       img.segmentationData # <<>> /\ img.analysis_result # SqlNull
  /\ img.status = "processing" =>
       img.segmentationData = <<>> /\ img.analysis_result = SqlNull
TerminalWrite(old, new) ==
  /\ old.status = "processing"
  /\ \/ new = [old EXCEPT !.status = "failed"]
     \/ /\ new.status = "completed"
        /\ new.analysis_result # SqlNull /\ new.segmentation_data # SqlNull
        /\ new.user_id = old.user_id /\ new.original_path = old.original_path
C6_NoPartialWrite ==
  /\ [](\A u \in Users :
          /\ \A i \in Ids : GetById(u, i) # <<>> => Consistent(GetById(u, i)[1])
          /\ \A j \in DOMAIN ListImages(u) : Consistent(ListImages(u)[j]))
  /\ [][\A i \in Kept :
          images'[i] # images[i] => TerminalWrite(images[i], images'[i])]_vars

\* A reader that is answered a completed image while another image of the
\* same list is still processing with its UPDATE already issued.
C6_Witness ==
  \E u \in Users : \E i, j \in DOMAIN ListImages(u) :
    /\ ListImages(u)[i].status = "completed"
    /\ ListImages(u)[i].segmentationData # <<>>
    /\ ListImages(u)[j].status = "processing" /\ worker[j].pc = "update"

\* C7: a worker whose model call hangs stays in that call for ever, and its
\* row, while it exists, stays processing.
Hung(i) == i \in DOMAIN worker /\ worker[i].pc = "hung"
C7_HungStaysProcessing ==
  /\ [](\A i \in Ids : Hung(i) /\ Exists(i) => images[i].status = "processing")
  /\ [][\A i \in Ids : Hung(i) => Hung(i)']_vars

\* A hung worker whose row is processing while another worker has finished.
C7_Witness ==
  \E i, j \in DOMAIN images :
    /\ Hung(i) /\ images[i].status = "processing"
    /\ images[j].status \in Terminal

\* C8: with reads and calls that settle and writes that succeed, every row
\* is eventually terminal or deleted, and a page polling a row eventually
\* shows a terminal status unless the row is deleted or the page is closed.
Shows(i) == detail.id = i /\ detail.image # <<>>
C8_EventuallyTerminal ==
  \A i \in Ids :
    /\ Exists(i) ~> (~Exists(i) \/ images[i].status \in Terminal)
    /\ Shows(i) ~> (~Exists(i) \/ ~Shows(i) \/ detail.image[1].status \in Terminal)

\* The page, opened on a processing row, shows it completed.
C8_Witness ==
  /\ detail.image # <<>> /\ detail.image[1].status = "completed"
  /\ Exists(detail.id) /\ worker[detail.id].pc = "returned"

\* C9: the upload handler never waits after its last INSERT: whenever a
\* request is still unanswered, a file of it is still to be inserted.
C9_ResponseDoesNotWait == upload.pc # "idle" => upload.files # <<>>

\* Every file uploaded so far was inserted and every request answered (no
\* INSERT failed, so with 200), and all the rows, two or more, are processing
\* with their workers still before the model's answer.
C9_Witness ==
  /\ upload.pc = "idle" /\ nextId = nextPath /\ nextId > 2
  /\ \A i \in 1..(nextId - 1) :
       /\ Exists(i) /\ images[i].status = "processing"
       /\ worker[i].pc \in {"readFile", "generateContent"}

\* C10: a row changes only in the step in which its own worker's UPDATE
\* resolves, and that step leaves every other row as it was.
OwnWrite(i) ==
  /\ i \in DOMAIN worker /\ worker[i].pc \in {"update", "catch"}
  /\ worker'[i].pc = "returned"
C10_OnlyOwnWorkerWrites ==
  [][\A i \in Kept :
       images'[i] # images[i] =>
         /\ OwnWrite(i)
         /\ \A j \in Kept \ {i} : images'[j] = images[j]]_vars

\* One user's row is completed while the worker of another user's row is
\* waiting for its own UPDATE.
C10_Witness ==
  \E i, j \in DOMAIN images :
    /\ images[i].user_id # images[j].user_id
    /\ images[i].status = "completed"
    /\ images[j].status = "processing" /\ worker[j].pc \in {"update", "catch"}

\* C11: whatever becomes of the unlink (file removed, already missing, or not
\* removable), the handler goes on to the DELETE of the same row; the step in
\* which the DELETE resolves leaves the row absent from GET /:id and from
\* GET / and every other row as it was; and a deleted row is absent from
\* both answers in every later state.
Absent(i) ==
  \A u \in Users : GetById(u, i) = <<>> /\ i \notin DOMAIN ListImages(u)
C11_DeleteRemoves ==
  /\ [](\A i \in Ids : Deleted(i) => Absent(i))
  /\ [][ /\ del.pc = "unlink" /\ del' # del =>
              del' = [del EXCEPT !.pc = "run"] /\ images' = images
         /\ del.pc = "run" /\ del' # del =>
              \/ images' = images
              \/ /\ Absent(del.id)'
                 /\ DOMAIN images' = DOMAIN images \ {del.id}
                 /\ \A j \in DOMAIN images' : images'[j] = images[j]
         /\ \A i \in Ids : Deleted(i) => Deleted(i)' ]_vars

\* A row is deleted although its file is still in the uploads directory (the
\* unlink was rejected), after its worker had completed it.
C11_Witness ==
  \E i \in DOMAIN worker :
    /\ Deleted(i) /\ Absent(i) /\ worker[i].path \in files
    /\ worker[i].pc = "returned" /\ del.pc = "idle"

\* C12: a worker exists only for the record it was dispatched for at the
\* record's creation; it enters the model call only from the file read and
\* never goes back to the file read, so the model is invoked at most once per
\* record; and a failed row stays failed as long as it exists.
C12_SingleAttempt ==
  [][ /\ \A i \in DOMAIN worker :
           /\ i \in DOMAIN worker'
           /\ worker'[i].pc = "generateContent" /\ worker[i].pc # "generateContent"
                => worker[i].pc = "readFile"
           /\ worker[i].pc # "readFile" => worker'[i].pc # "readFile"
      /\ \A i \in DOMAIN worker' \ DOMAIN worker :
           i = nextId /\ i \notin DOMAIN images /\ i \in DOMAIN images'
      /\ \A i \in Kept :
           images[i].status = "failed" => images'[i].status = "failed" ]_vars

\* One worker is in its catch block after its model call was rejected, and
\* another has returned leaving its row failed.
C12_Witness ==
  \E i, j \in DOMAIN images :
    /\ worker[i].pc = "catch" /\ worker[i].cause = "generateContent"
    /\ images[i].status = "processing"
    /\ images[j].status = "failed" /\ worker[j].pc = "returned"

\* C13: each page has its interval set exactly while a status it has
\* observed is other than completed and failed; a page replaces what it
\* shows only on a tick of that interval, with what the store holds then, so
\* it is left alone once all it has observed is terminal; and the steps in
\* which a page reads (open, tick) leave the store, the files and the
\* handlers as they were.
ObservedDetail == IF detail.image = <<>> THEN {} ELSE {detail.image[1].status}
ObservedDash == {dash.images[j] : j \in DOMAIN dash.images}
NonTerminalIn(S) == \E st \in S : st \notin Terminal
Completed(i) == Exists(i) /\ images[i].status = "completed"
Persisted(i) == SegmentationDataOf(images[i])[1]
HasSpan(i) == JsonMatch(images[i].analysis_result[1]) # <<>>
Parsed(i) == JsonParse(JsonMatch(images[i].analysis_result[1]))
IsNumber(v) == v.t = "number"
ItemsOrNone(v) == IF v.t = "array" THEN v.a ELSE <<>>

\* C14 (as claimed): in every completed row, a weed coverage and a healthy
\* crop coverage that are numbers lie between 0 and 100.
InRange(v) == IsNumber(v) => 0 <= v.n /\ v.n <= 100
C14_CoverageWithinRange ==
  \A i \in DOMAIN images :
    Completed(i) =>
      /\ InRange(Persisted(i).weedCoverage)
      /\ InRange(Persisted(i).healthyCropCoverage)

\* C15 (as claimed): in every row completed from a parsed object, a weed or
\* crop coverage that the object lacks or holds as something other than a
\* number is stored as the coverage derived from the object's items (none
\* when items is not a list), and a total area it lacks or holds as
\* something other than a number is stored as 100.
Backfilled(given, stored, derived) == ~IsNumber(given) => stored = Num(derived)
C15_MissingBackfilled ==
  \A i \in DOMAIN images :
    Completed(i) /\ HasSpan(i) =>
      LET items == ItemsOrNone(Parsed(i).items)
      IN /\ Backfilled(Parsed(i).weedCoverage, Persisted(i).weedCoverage,
                       CoveragePercent(AreaSum(items, Weed)))
         /\ Backfilled(Parsed(i).healthyCropCoverage,
                       Persisted(i).healthyCropCoverage,
                       CoveragePercent(AreaSum(items, Crop)))
         /\ Backfilled(Parsed(i).totalArea, Persisted(i).totalArea, 100)

\* C16 (as claimed): for every item of a list the worker has derived from, a
\* box that is not a list of exactly four numbers has area 0, and the item is
\* in the stored items at its place with its label.
FourNumbers(box) ==
  box.t = "array" /\ Len(box.a) = 4 /\ \A k \in 1..4 : IsNumber(box.a[k])
C16_MalformedBoxZero ==
  \A i \in DOMAIN images :
    Completed(i) /\ HasSpan(i) /\ Parsed(i).items.t = "array" =>
      LET items == Parsed(i).items.a
      IN /\ Persisted(i).items.t = "array"
         /\ Len(Persisted(i).items.a) = Len(items)
         /\ \A k \in 1..Len(items) :
              /\ LabelOf(Persisted(i).items.a[k]) = LabelOf(items[k])
              /\ ~FourNumbers(BoxOf(items[k])) => areaOf(BoxOf(items[k])) = 0

\* C17 (as claimed): in every completed row the stored items and
\* recommendations are lists, the empty list when the parsed object lacks
\* them or holds something that is not a list.
ListOrEmpty(given, stored) ==
  /\ stored.t = "array"
  /\ given.t # "array" => stored = Arr(<<>>)
C17_SequencesDefaulted ==
  \A i \in DOMAIN images :
    Completed(i) /\ HasSpan(i) =>
      /\ ListOrEmpty(Parsed(i).items, Persisted(i).items)
      /\ ListOrEmpty(Parsed(i).recommendations, Persisted(i).recommendations)

\* C18: the object the worker hands to the UPDATE holds every weed coverage,
\* crop coverage and total area that is a number in the parsed object as it
\* was parsed, and the parsed items as they were; and the stored analysis
\* holds the same, for the numbers and items JSON can write (the finite ones).
Unchanged(given, kept) == IsNumber(given) => kept = given
Writable(v) == Serialized(v) = v
C18_PresentNeverOverwritten ==
  /\ \A i \in DOMAIN worker :
       worker[i].pc = "update" /\ JsonMatch(worker[i].text) # <<>> =>
         LET given == JsonParse(JsonMatch(worker[i].text))
             seg == worker[i].seg
         IN /\ Unchanged(given.weedCoverage, seg.weedCoverage)
            /\ Unchanged(given.healthyCropCoverage, seg.healthyCropCoverage)
            /\ Unchanged(given.totalArea, seg.totalArea)
            /\ seg.items = given.items
  /\ \A i \in DOMAIN images :
       Completed(i) /\ HasSpan(i) =>
         \A f \in {"weedCoverage", "healthyCropCoverage", "totalArea", "items"} :
           (f = "items" \/ IsNumber(Parsed(i)[f])) /\ Writable(Parsed(i)[f])
             => Persisted(i)[f] = Parsed(i)[f]

\* A row is completed with the weed coverage 60 the model stated, although
\* the one weed box of its items covers 4 percent, and with that item.
C18_Witness ==
  \E i \in DOMAIN images :
    /\ Completed(i) /\ HasSpan(i)
    /\ Parsed(i).weedCoverage = Num(60) /\ Parsed(i).items = Arr(<<WeedPatch>>)
    /\ CoveragePercent(AreaSum(<<WeedPatch>>, Weed)) = 4
    /\ Persisted(i).weedCoverage = Num(60)
    /\ Persisted(i).items = Arr(<<WeedPatch>>)

\* C19 (as claimed): normalizing the serialized analysis a worker is about to
\* store raises nothing and gives an analysis with the same serialization.
C19_Idempotent ==
  \A i \in DOMAIN worker :
    worker[i].pc = "update" =>
      LET again == Normalize(JsonStringify(worker[i].seg))
      IN /\ ~again.threw
         /\ JsonStringify(again.seg) = JsonStringify(worker[i].seg)

\* C20: in every row completed from a parsed object whose items are a list,
\* a weed (crop) coverage the object lacks is stored as an integer between 0
\* and 100 that is nearest to 100 times the summed area, cut to [0,100], of
\* the items whose label holds w-e-e-d (c-r-o-p) in either case, an item
\* whose label holds both counting for both; areas are those areaOf gives.
UpperOf(c) ==
  CASE c = "w" -> "W" [] c = "e" -> "E" [] c = "d" -> "D"
    [] c = "c" -> "C" [] c = "r" -> "R" [] c = "o" -> "O" [] c = "p" -> "P"
Contains(label, kw) ==
  /\ label.t = "string"
  /\ \E at \in 0..(Len(label.s) - Len(kw)) :
       \A j \in 1..Len(kw) : label.s[at + j] \in {kw[j], UpperOf(kw[j])}
Matching(items, kw) == {k \in 1..Len(items) : Contains(LabelOf(items[k]), kw)}
RECURSIVE SumAreas(_, _)
SumAreas(items, S) ==
  IF S = {} THEN 0
  ELSE LET k == CHOOSE k \in S : TRUE
       IN areaOf(BoxOf(items[k])) + SumAreas(items, S \ {k})
NearestPercent(v, area) ==
  LET cut == IF area > 1000000 THEN 1000000 ELSE area
  IN /\ IsNumber(v) /\ 0 <= v.n /\ v.n <= 100
     /\ 10000 * v.n - cut <= 5000 /\ cut - 10000 * v.n <= 5000
C20_DerivedCoverage ==
  \A i \in DOMAIN images :
    Completed(i) /\ HasSpan(i) /\ Parsed(i).items.t = "array" =>
      LET items == Parsed(i).items.a
      IN /\ IsNullish(Parsed(i).weedCoverage) =>
              NearestPercent(Persisted(i).weedCoverage,
                             SumAreas(items, Matching(items, <<"w", "e", "e", "d">>)))
         /\ IsNullish(Parsed(i).healthyCropCoverage) =>
              NearestPercent(Persisted(i).healthyCropCoverage,
                             SumAreas(items, Matching(items, <<"c", "r", "o", "p">>)))

\* The row is completed from a crop box of half the image and a weed box of
\* a tenth of it, no coverage stated: crop 50 and weed 10 are stored.
C20_Witness ==
  \E i \in DOMAIN images :
    /\ Completed(i) /\ HasSpan(i)
    /\ Parsed(i) = Payload(Undef, Undef, Undef, Arr(<<Crop50, Weed10>>), Undef)
    /\ Persisted(i).healthyCropCoverage = Num(50)
    /\ Persisted(i).weedCoverage = Num(10)

\* C21: once a row is deleted its id stays absent from GET /:id and GET /,
\* and every step its worker takes from then on, the resolving of its UPDATE
\* to completed or to failed included, leaves the whole table as it was.
C21_DeletedStaysDeleted ==
  [][\A i \in DOMAIN worker :
       Deleted(i) =>
         /\ Deleted(i)' /\ Absent(i)'
         /\ worker'[i] # worker[i] => images' = images]_vars

\* A row was deleted and its worker has returned, while the other row is
\* processing with its own UPDATE issued.
C21_Witness ==
  \E i \in DOMAIN worker, j \in DOMAIN images :
    /\ Deleted(i) /\ worker[i].pc = "returned" /\ worker[i].path \notin files
    /\ images[j].status = "processing" /\ worker[j].pc = "update"

\* C22: GET / answers a user only rows that user owns; GET /:id answers a user
\* who does not own the row not-found; a DELETE handler gets past its SELECT
\* only for the owner of the row, so that a row is removed, and a file
\* unlinked, only in a step of a DELETE of the row's owner.
Owner(i) == images[i].user_id
C22_NeverShared ==
  /\ [](\A u \in Users :
          /\ \A i \in DOMAIN ListImages(u) : Owner(i) = u
          /\ \A i \in DOMAIN images : Owner(i) # u => GetById(u, i) = <<>>)
  /\ [](del.pc # "idle" =>
          /\ Exists(del.id) /\ Owner(del.id) = del.user
          /\ images[del.id].original_path = del.path)
  /\ [][ /\ \A i \in DOMAIN images \ DOMAIN images' :
              del.pc = "run" /\ del.id = i /\ del.user = Owner(i)
         /\ \A f \in files \ files' :
              /\ del.pc = "unlink" /\ del.path = f
              /\ images[del.id].original_path = f /\ del.user = Owner(del.id)
         /\ \A i \in Kept : images'[i].user_id = Owner(i) ]_vars

\* Each user owns a row; the second user's row is not found by the first
\* user, whose DELETE of the own row is past its SELECT, and the second
\* user's row and file are there.
C22_Witness ==
  \E i, j \in DOMAIN images :
    /\ Owner(i) = "u1" /\ Owner(j) = "u2"
    /\ GetById("u1", j) = <<>> /\ GetById("u2", j) # <<>>
    /\ j \notin DOMAIN ListImages("u1")
    /\ del.pc = "run" /\ del.user = "u1" /\ del.id = i
    /\ images[j].original_path \in files

====
